---- MODULE Spec2Model ----
(***************************************************************************)
(* Model of the hardhat task "deployment-bridged-token-deployer"           *)
(* (src/tasks/deployment-of-bridged-token-deployer.ts).  One run of        *)
(* generateDeployment is a sequence of awaited steps; pc is the position   *)
(* of the run, folder is the content of OUTPUT_FOLDER_GC on disk, which    *)
(* survives from one run to the next.                                      *)
(***************************************************************************)
EXTENDS Integers, Sequences, FiniteSets, TLC

VARIABLES pc, failedAt, error, warnings, chainId, settings, claims, proofs,
          addresses, deploymentHelperParameters, bridgedTokenDeployer,
          folder, folder0, ops, deployCount

vars == <<pc, failedAt, error, warnings, chainId, settings, claims, proofs,
          addresses, deploymentHelperParameters, bridgedTokenDeployer,
          folder, folder0, ops, deployCount>>

\* ---------------------------------------------------------------- bounds
MaxClaims == 2

\* ------------------------------------------------------- values and inputs
\* An optional value: <<>> is undefined / absent, <<v>> is the value v.
None == <<>>
Some(v) == <<v>>
Range(s) == {s[i] : i \in 1..Len(s)}

\* A piece of literal text of a message, and an interpolated value.
Txt(s) == <<s>>

\* Chain identifiers the provider may report, as chainId.toString() gives them.
ChainIds == {"1", "100", "5"}

\* Addresses are strings of hexadecimal characters; letter case is kept.
PredictedCowToken == <<"A", "b">>
PredictedCowDao == <<"c", "D">>
ExpectedAddresses ==
    {<<"A", "b">>, <<"a", "B">>, <<"c", "D">>, <<"C", "d">>}
DeployedAddresses == {<<"E", "1">>, <<"F", "2">>}

\* The settings documents a settings file may hold.
SettingsDocs ==
    {[cowToken |-> [expectedAddress |-> t],
      cowDao |-> [expectedAddress |-> d],
      bridge |-> [multiTokenMediatorGnosisChain |-> <<"9", "9">>],
      virtualCowToken |-> [gnoPrice |-> 15]] :
        t \in {None} \cup {Some(a) : a \in ExpectedAddresses},
        d \in {None} \cup {Some(a) : a \in ExpectedAddresses}}

\* The claim lists a claims file may hold (a claim is named by a number).
ClaimLists ==
    {[i \in 1..n |-> base + i] : n \in 1..MaxClaims, base \in {0, 10}}

\* -------------------------------------------------------- pure functions
\* String.prototype.toLowerCase, character by character.
LowerChar(c) ==
    CASE c = "A" -> "a"
      [] c = "B" -> "b"
      [] c = "C" -> "c"
      [] c = "D" -> "d"
      [] c = "E" -> "e"
      [] c = "F" -> "f"
      [] OTHER -> c

toLowerCase_identity(s) == s

toLowerCase(s) == [i \in 1..Len(s) |-> LowerChar(s[i])]

\* JSON.stringify of a string value: the string between double quotes.
JSONstringifyString(s) == <<"\"">> \o s \o <<"\"">>

\* JSON.stringify of a structured value.
JSONstringify(v) == [json |-> v]

\* Commitment Builder: leaf and node hashes, odd node promoted unchanged.
LeafHash(c) == <<"leaf", c>>
NodeHash(l, r) == <<"node", l, r>>

NextLevel(nodes) ==
    [k \in 1..((Len(nodes) + 1) \div 2) |->
        IF 2 * k <= Len(nodes)
        THEN NodeHash(nodes[2 * k - 1], nodes[2 * k])
        ELSE nodes[2 * k - 1]]

RECURSIVE RootOf(_)
RootOf(nodes) ==
    IF Len(nodes) = 1 THEN nodes[1] ELSE RootOf(NextLevel(nodes))

RECURSIVE ProofOf(_, _)
ProofOf(i, nodes) ==
    IF Len(nodes) = 1 THEN <<>>
    ELSE LET sib == IF i % 2 = 1 THEN i + 1 ELSE i - 1
             here == IF sib <= Len(nodes)
                     THEN <<[hash |-> nodes[sib], left |-> (sib < i)]>>
                     ELSE <<>>
         IN here \o ProofOf((i + 1) \div 2, NextLevel(nodes))

computeProofs(cs) ==
    LET leaves == [i \in 1..Len(cs) |-> LeafHash(cs[i])]
    IN [merkleRoot |-> RootOf(leaves),
        claims |-> [i \in 1..Len(cs) |->
                       [claim |-> cs[i], proof |-> ProofOf(i, leaves)]]]

\* Static token table keyed by chain identifier.
defaultTokens ==
    [gno |-> [c \in ChainIds |-> <<"g", c>>],
     weth |-> [c \in ChainIds |-> <<"w", c>>]]

\* Shards of the claim+proof list: one file per ShardSize items.
ShardSize == 1

Shards(cwp) ==
    [k \in 1..((Len(cwp) + ShardSize - 1) \div ShardSize) |->
        JSONstringify(SubSeq(cwp, (k - 1) * ShardSize + 1,
                             IF k * ShardSize <= Len(cwp)
                             THEN k * ShardSize ELSE Len(cwp)))]

\* removeSplitClaimFiles: every shard file of the folder is removed.
removeSplitClaimFiles(f) == [f EXCEPT !.chunks = <<>>]

\* The first n shard files of sh written over the shard files of f.
WriteShards(f, sh, n) ==
    [f EXCEPT !.chunks =
        [k \in 1..(IF n >= Len(f.chunks) THEN n ELSE Len(f.chunks)) |->
            IF k <= n THEN sh[k] ELSE f.chunks[k]]]

\* ------------------------------------------------------------ the folder
EmptyFolder ==
    [exists |-> FALSE, addresses |-> None, claims |-> None,
     params |-> None, chunks |-> <<>>]

StaleParams == JSONstringify([merkleRoot |-> LeafHash(0)])

Op(o, f, i) == [op |-> o, file |-> f, idx |-> i]

\* ------------------------------------------------------------------ Init
Init ==
    /\ pc = "getSigners"
    /\ failedAt = "none"
    /\ error = <<>>
    /\ warnings = {}
    /\ chainId = None
    /\ settings = None
    /\ claims = None
    /\ proofs = None
    /\ addresses = None
    /\ deploymentHelperParameters = None
    /\ bridgedTokenDeployer = None
    /\ folder \in {EmptyFolder,
                   [EmptyFolder EXCEPT !.exists = TRUE,
                                       !.params = Some(StaleParams)]}
    /\ folder0 = folder
    /\ ops = <<>>
    /\ deployCount = 0

\* --------------------------------------------------------------- actions
Throw(msg) ==
    /\ failedAt' = pc
    /\ pc' = "failed"
    /\ error' = msg

Goto(next) ==
    /\ pc' = next
    /\ UNCHANGED <<failedAt, error>>

\* const [deployer] = await ethers.getSigners();
GetSigners ==
    /\ pc = "getSigners"
    /\ Goto("getNetwork")
    /\ UNCHANGED <<warnings, chainId, settings, claims, proofs, addresses,
                   deploymentHelperParameters, bridgedTokenDeployer,
                   folder, folder0, ops, deployCount>>

\* const chainId = (await provider.getNetwork()).chainId.toString();
GetNetwork ==
    /\ pc = "getNetwork"
    /\ \E c \in ChainIds : chainId' = Some(c)
    /\ Goto("checkChainId")
    /\ UNCHANGED <<warnings, settings, claims, proofs, addresses,
                   deploymentHelperParameters, bridgedTokenDeployer,
                   folder, folder0, ops, deployCount>>

CheckChainId_never ==
    /\ pc = "checkChainId"
    /\ Goto("readSettings")
    /\ UNCHANGED <<warnings, chainId, settings, claims, proofs, addresses,
                   deploymentHelperParameters, bridgedTokenDeployer,
                   folder, folder0, ops, deployCount>>

\* if (chainId !== "100") throw ...
CheckChainId ==
    /\ pc = "checkChainId"
    /\ IF chainId[1] # "100"
       THEN Throw(<<Txt("This script must be run on gnosis chain. Found chainId "),
                    Txt(chainId[1])>>)
       ELSE Goto("readSettings")
    /\ UNCHANGED <<warnings, chainId, settings, claims, proofs, addresses,
                   deploymentHelperParameters, bridgedTokenDeployer,
                   folder, folder0, ops, deployCount>>

\* const settings = JSON.parse(await fs.readFile(settingsJson, "utf8"));
ReadSettings ==
    /\ pc = "readSettings"
    /\ \E s \in SettingsDocs : settings' = Some(s)
    /\ Goto("parseCsvFile")
    /\ UNCHANGED <<warnings, chainId, claims, proofs, addresses,
                   deploymentHelperParameters, bridgedTokenDeployer,
                   folder, folder0, ops, deployCount>>

\* const claims = await parseCsvFile(claimCsv);
ParseCsvFile ==
    /\ pc = "parseCsvFile"
    /\ \E cs \in ClaimLists : claims' = Some(cs)
    /\ Goto("computeProofs")
    /\ UNCHANGED <<warnings, chainId, settings, proofs, addresses,
                   deploymentHelperParameters, bridgedTokenDeployer,
                   folder, folder0, ops, deployCount>>

\* const { merkleRoot, claims: claimsWithProof } = computeProofs(claims);
ComputeProofs ==
    /\ pc = "computeProofs"
    /\ proofs' = Some(computeProofs(claims[1]))
    /\ Goto("generateProposal")
    /\ UNCHANGED <<warnings, chainId, settings, claims, addresses,
                   deploymentHelperParameters, bridgedTokenDeployer,
                   folder, folder0, ops, deployCount>>

\* const { addresses: { cowToken, cowDao } } = await generateProposal(...);
GenerateProposal ==
    /\ pc = "generateProposal"
    /\ addresses' = Some([cowToken |-> PredictedCowToken,
                          cowDao |-> PredictedCowDao])
    /\ Goto("checkCowToken")
    /\ UNCHANGED <<warnings, chainId, settings, claims, proofs,
                   deploymentHelperParameters, bridgedTokenDeployer,
                   folder, folder0, ops, deployCount>>

CheckCowToken_never ==
    /\ pc = "checkCowToken"
    /\ Goto("checkCowDao")
    /\ UNCHANGED <<warnings, chainId, settings, claims, proofs, addresses,
                   deploymentHelperParameters, bridgedTokenDeployer,
                   folder, folder0, ops, deployCount>>

CheckCowToken_strict ==
    /\ pc = "checkCowToken"
    /\ LET expected == settings[1].cowToken.expectedAddress
           cowToken == addresses[1].cowToken
       IN IF expected = None \/ toLowerCase(expected[1]) # toLowerCase(cowToken)
          THEN /\ Throw(<<Txt("Expected "), Txt("cowToken"), Txt(" address ")>>)
               /\ UNCHANGED warnings
          ELSE /\ Goto("checkCowDao")
               /\ UNCHANGED warnings
    /\ UNCHANGED <<chainId, settings, claims, proofs, addresses,
                   deploymentHelperParameters, bridgedTokenDeployer,
                   folder, folder0, ops, deployCount>>

\* if (settings.cowToken.expectedAddress !== undefined) { ... } else warn
CheckCowToken ==
    /\ pc = "checkCowToken"
    /\ LET expected == settings[1].cowToken.expectedAddress
           cowToken == addresses[1].cowToken
       IN IF expected # None
          THEN IF toLowerCase(expected[1]) # toLowerCase(cowToken)
               THEN /\ Throw(<<Txt("Expected "), Txt("cowToken"),
                               Txt(" address "), expected[1],
                               Txt(" does not coincide with calculated address "),
                               cowToken>>)
                    /\ UNCHANGED warnings
               ELSE /\ Goto("checkCowDao")
                    /\ UNCHANGED warnings
          ELSE /\ warnings' = warnings \cup
                    {"settings.cowToken.expectedAddress was not defined"}
               /\ Goto("checkCowDao")
    /\ UNCHANGED <<chainId, settings, claims, proofs, addresses,
                   deploymentHelperParameters, bridgedTokenDeployer,
                   folder, folder0, ops, deployCount>>

\* if (settings.cowDao.expectedAddress !== undefined) { ... } else warn
CheckCowDao ==
    /\ pc = "checkCowDao"
    /\ LET expected == settings[1].cowDao.expectedAddress
           cowDao == addresses[1].cowDao
       IN IF expected # None
          THEN IF toLowerCase(expected[1]) # toLowerCase(cowDao)
               THEN /\ Throw(<<Txt("Expected "), Txt("cowDao"),
                               Txt(" address does not coincide with calculated address")>>)
                    /\ UNCHANGED warnings
               ELSE /\ Goto("assembleParameters")
                    /\ UNCHANGED warnings
          ELSE /\ warnings' = warnings \cup
                    {"settings.cowDao.expectedAddress was not defined"}
               /\ Goto("assembleParameters")
    /\ UNCHANGED <<chainId, settings, claims, proofs, addresses,
                   deploymentHelperParameters, bridgedTokenDeployer,
                   folder, folder0, ops, deployCount>>

\* const deploymentHelperParameters = { ... }; console.log(...)
AssembleParameters ==
    /\ pc = "assembleParameters"
    /\ deploymentHelperParameters' =
         Some([foreignToken |-> addresses[1].cowToken,
               multiTokenMediatorGnosisChain |->
                   settings[1].bridge.multiTokenMediatorGnosisChain,
               merkleRoot |-> proofs[1].merkleRoot,
               communityFundsTarget |-> addresses[1].cowDao,
               gnoToken |-> defaultTokens.gno[chainId[1]],
               gnoPrice |-> settings[1].virtualCowToken.gnoPrice,
               nativeTokenPrice |-> 15,   \* 0.15, in hundredths
               wrappedNativeToken |-> defaultTokens.weth[chainId[1]]])
    /\ Goto("getContractFactory")
    /\ UNCHANGED <<warnings, chainId, settings, claims, proofs, addresses,
                   bridgedTokenDeployer, folder, folder0, ops, deployCount>>

\* const BridgedTokenDeployer = await getContractFactory("BridgedTokenDeployer");
GetContractFactory ==
    /\ pc = "getContractFactory"
    /\ Goto("deploy")
    /\ UNCHANGED <<warnings, chainId, settings, claims, proofs, addresses,
                   deploymentHelperParameters, bridgedTokenDeployer,
                   folder, folder0, ops, deployCount>>

\* const bridgedTokenDeployer = await BridgedTokenDeployer.deploy(...);
Deploy ==
    /\ pc = "deploy"
    /\ \E a \in DeployedAddresses :
         bridgedTokenDeployer' =
             Some([address |-> a, args |-> deploymentHelperParameters[1]])
    /\ deployCount' = deployCount + 1
    /\ Goto("rmClaims")
    /\ UNCHANGED <<warnings, chainId, settings, claims, proofs, addresses,
                   deploymentHelperParameters, folder, folder0, ops>>

\* await fs.rm(`${OUTPUT_FOLDER_GC}/claims.json`, { recursive, force });
RmClaims ==
    /\ pc = "rmClaims"
    /\ folder' = [folder EXCEPT !.claims = None]
    /\ ops' = Append(ops, Op("rm", "claims.json", 0))
    /\ Goto("rmParams")
    /\ UNCHANGED <<warnings, chainId, settings, claims, proofs, addresses,
                   deploymentHelperParameters, bridgedTokenDeployer,
                   folder0, deployCount>>

\* await fs.rm(`${OUTPUT_FOLDER_GC}/params.json`, { recursive, force });
RmParams ==
    /\ pc = "rmParams"
    /\ folder' = [folder EXCEPT !.params = None]
    /\ ops' = Append(ops, Op("rm", "params.json", 0))
    /\ Goto("removeSplitClaimFiles")
    /\ UNCHANGED <<warnings, chainId, settings, claims, proofs, addresses,
                   deploymentHelperParameters, bridgedTokenDeployer,
                   folder0, deployCount>>

RemoveSplitClaimFiles_skipped ==
    /\ pc = "removeSplitClaimFiles"
    /\ ops' = Append(ops, Op("rm", "chunks", 0))
    /\ Goto("mkdir")
    /\ UNCHANGED <<warnings, chainId, settings, claims, proofs, addresses,
                   deploymentHelperParameters, bridgedTokenDeployer,
                   folder, folder0, deployCount>>

\* await removeSplitClaimFiles(OUTPUT_FOLDER_GC);
RemoveSplitClaimFiles ==
    /\ pc = "removeSplitClaimFiles"
    /\ folder' = removeSplitClaimFiles(folder)
    /\ ops' = Append(ops, Op("rm", "chunks", 0))
    /\ Goto("mkdir")
    /\ UNCHANGED <<warnings, chainId, settings, claims, proofs, addresses,
                   deploymentHelperParameters, bridgedTokenDeployer,
                   folder0, deployCount>>

\* await fs.mkdir(OUTPUT_FOLDER_GC, { recursive: true });
Mkdir ==
    /\ pc = "mkdir"
    /\ folder' = [folder EXCEPT !.exists = TRUE]
    /\ Goto("writeAddresses")
    /\ UNCHANGED <<warnings, chainId, settings, claims, proofs, addresses,
                   deploymentHelperParameters, bridgedTokenDeployer,
                   folder0, ops, deployCount>>

WriteAddresses_predicted ==
    /\ pc = "writeAddresses"
    /\ folder.exists
    /\ folder' = [folder EXCEPT !.addresses =
                     Some(JSONstringifyString(addresses[1].cowToken))]
    /\ ops' = Append(ops, Op("write", "addresses.json", 0))
    /\ Goto("writeClaims")
    /\ UNCHANGED <<warnings, chainId, settings, claims, proofs, addresses,
                   deploymentHelperParameters, bridgedTokenDeployer,
                   folder0, deployCount>>

\* await fs.writeFile(`${OUTPUT_FOLDER_GC}/addresses.json`, JSON.stringify(address));
WriteAddresses ==
    /\ pc = "writeAddresses"
    /\ folder.exists
    /\ folder' = [folder EXCEPT !.addresses =
                     Some(JSONstringifyString(bridgedTokenDeployer[1].address))]
    /\ ops' = Append(ops, Op("write", "addresses.json", 0))
    /\ Goto("writeClaims")
    /\ UNCHANGED <<warnings, chainId, settings, claims, proofs, addresses,
                   deploymentHelperParameters, bridgedTokenDeployer,
                   folder0, deployCount>>

WriteClaims_rmAfter ==
    /\ pc = "writeClaims"
    /\ folder.exists
    /\ folder' = [folder EXCEPT !.claims = Some(JSONstringify(proofs[1].claims)),
                                !.params = None]
    /\ ops' = ops \o <<Op("write", "claims.json", 0), Op("rm", "params.json", 0)>>
    /\ Goto("splitClaimsAndSaveToFolder")
    /\ UNCHANGED <<warnings, chainId, settings, claims, proofs, addresses,
                   deploymentHelperParameters, bridgedTokenDeployer,
                   folder0, deployCount>>

\* await fs.writeFile(`${OUTPUT_FOLDER_GC}/claims.json`, JSON.stringify(claimsWithProof));
WriteClaims ==
    /\ pc = "writeClaims"
    /\ folder.exists
    /\ folder' = [folder EXCEPT !.claims = Some(JSONstringify(proofs[1].claims))]
    /\ ops' = Append(ops, Op("write", "claims.json", 0))
    /\ Goto("splitClaimsAndSaveToFolder")
    /\ UNCHANGED <<warnings, chainId, settings, claims, proofs, addresses,
                   deploymentHelperParameters, bridgedTokenDeployer,
                   folder0, deployCount>>

ShardOps(n) == [k \in 1..n |-> Op("write", "chunk", k)]

\* await splitClaimsAndSaveToFolder(claimsWithProof, OUTPUT_FOLDER_GC);
SplitClaimsAndSaveToFolder ==
    /\ pc = "splitClaimsAndSaveToFolder"
    /\ folder.exists
    /\ LET sh == Shards(proofs[1].claims)
       IN /\ folder' = WriteShards(folder, sh, Len(sh))
          /\ ops' = ops \o ShardOps(Len(sh))
    /\ Goto("done")
    /\ UNCHANGED <<warnings, chainId, settings, claims, proofs, addresses,
                   deploymentHelperParameters, bridgedTokenDeployer,
                   folder0, deployCount>>

\* splitClaimsAndSaveToFolder rejects after writing only some of the shards.
SplitFails ==
    /\ pc = "splitClaimsAndSaveToFolder"
    /\ folder.exists
    /\ LET sh == Shards(proofs[1].claims)
       IN \E n \in 0..(Len(sh) - 1) :
            /\ folder' = WriteShards(folder, sh, n)
            /\ ops' = ops \o ShardOps(n)
    /\ Throw(<<Txt("IOError")>>)
    /\ UNCHANGED <<warnings, chainId, settings, claims, proofs, addresses,
                   deploymentHelperParameters, bridgedTokenDeployer,
                   folder0, deployCount>>

\* The awaited calls that may reject, leaving the state as it is.
FalliblePcs ==
    {"getSigners", "getNetwork", "readSettings", "parseCsvFile",
     "generateProposal", "getContractFactory", "deploy", "rmClaims",
     "rmParams", "removeSplitClaimFiles", "mkdir", "writeAddresses",
     "writeClaims"}

IOFailure ==
    /\ pc \in FalliblePcs
    /\ Throw(<<Txt("IOError")>>)
    /\ UNCHANGED <<warnings, chainId, settings, claims, proofs, addresses,
                   deploymentHelperParameters, bridgedTokenDeployer,
                   folder, folder0, ops, deployCount>>

\* The task is run again, on the folder the earlier run left.
StartRun ==
    /\ pc \in {"done", "failed"}
    /\ pc' = "getSigners"
    /\ failedAt' = "none"
    /\ error' = <<>>
    /\ warnings' = {}
    /\ chainId' = None
    /\ settings' = None
    /\ claims' = None
    /\ proofs' = None
    /\ addresses' = None
    /\ deploymentHelperParameters' = None
    /\ bridgedTokenDeployer' = None
    /\ folder0' = folder
    /\ ops' = <<>>
    /\ deployCount' = 0
    /\ UNCHANGED folder

Next ==
    \/ GetSigners
    \/ GetNetwork
    \/ CheckChainId
    \/ ReadSettings
    \/ ParseCsvFile
    \/ ComputeProofs
    \/ GenerateProposal
    \/ CheckCowToken
    \/ CheckCowDao
    \/ AssembleParameters
    \/ GetContractFactory
    \/ Deploy
    \/ RmClaims
    \/ RmParams
    \/ RemoveSplitClaimFiles
    \/ Mkdir
    \/ WriteAddresses
    \/ WriteClaims
    \/ SplitClaimsAndSaveToFolder
    \/ SplitFails
    \/ IOFailure
    \/ StartRun

Spec == Init /\ [][Next]_vars

\* ------------------------------------------------------------ properties
PcOrder ==
    <<"getSigners", "getNetwork", "checkChainId", "readSettings",
      "parseCsvFile", "computeProofs", "generateProposal", "checkCowToken",
      "checkCowDao", "assembleParameters", "getContractFactory", "deploy",
      "rmClaims", "rmParams", "removeSplitClaimFiles", "mkdir",
      "writeAddresses", "writeClaims", "splitClaimsAndSaveToFolder", "done">>

Rank(p) == CHOOSE i \in 1..Len(PcOrder) : PcOrder[i] = p

\* The step of the run that is next, or that threw.
Position == IF pc = "failed" THEN failedAt ELSE pc

\* The step has run in this run: to its end, or to its throw.
Executed(step) ==
    \/ Rank(Position) > Rank(step)
    \/ pc = "failed" /\ failedAt = step /\ step \notin FalliblePcs

ThrewAt(step) == pc = "failed" /\ failedAt = step

CasePairs ==
    {<<"a", "A">>, <<"b", "B">>, <<"c", "C">>, <<"d", "D">>,
     <<"e", "E">>, <<"f", "F">>}

SameLetter(x, y) == x = y \/ <<x, y>> \in CasePairs \/ <<y, x>> \in CasePairs

EqualUpToCase(a, b) ==
    /\ Len(a) = Len(b)
    /\ \A i \in 1..Len(a) : SameLetter(a[i], b[i])

ExpectedOf(name) ==
    IF name = "cowToken" THEN settings[1].cowToken.expectedAddress
    ELSE settings[1].cowDao.expectedAddress

PredictedOf(name) ==
    IF name = "cowToken" THEN addresses[1].cowToken ELSE addresses[1].cowDao

CheckOf(name) == IF name = "cowToken" THEN "checkCowToken" ELSE "checkCowDao"

WarningOf(name) ==
    IF name = "cowToken"
    THEN "settings.cowToken.expectedAddress was not defined"
    ELSE "settings.cowDao.expectedAddress was not defined"

Names == {"cowToken", "cowDao"}

Known == settings # None /\ addresses # None

Mismatch(name) ==
    /\ Known
    /\ ExpectedOf(name) # None
    /\ ~EqualUpToCase(ExpectedOf(name)[1], PredictedOf(name))

Written(file) == \E i \in 1..Len(ops) : ops[i].op = "write" /\ ops[i].file = file
Removed(file) == \E i \in 1..Len(ops) : ops[i].op = "rm" /\ ops[i].file = file
AnyWrite == \E i \in 1..Len(ops) : ops[i].op = "write"

\* C1: when the chain identifier is not "100" the run has aborted at the
\* chain check with an error holding the identifier, and by then no settings
\* and no claims were read, nothing was deployed and the folder is untouched.
C1_ChainCheckAborts ==
    (chainId # None /\ chainId[1] # "100" /\ Executed("checkChainId")) =>
        /\ ThrewAt("checkChainId")
        /\ Txt(chainId[1]) \in Range(error)
        /\ settings = None
        /\ claims = None
        /\ bridgedTokenDeployer = None
        /\ deployCount = 0
        /\ ops = <<>>
        /\ folder = folder0

C1_Witness ==
    /\ ThrewAt("checkChainId")
    /\ chainId = Some("5")
    /\ folder0.claims # None
    /\ folder0.chunks # <<>>

\* C2: for cowToken and for cowDao, an expected address that differs from
\* the predicted one (other than by letter case, as the Verifier compares)
\* aborts the run at that check with an error; the folder is as before the
\* run, nothing removed or written, and the parameters are not assembled.
C2_MismatchAborts ==
    \A name \in Names :
        (Mismatch(name) /\ Executed(CheckOf(name))) =>
            /\ ThrewAt(CheckOf(name))
            /\ error # <<>>
            /\ folder = folder0
            /\ ops = <<>>
            /\ deploymentHelperParameters = None
            /\ bridgedTokenDeployer = None

C2_Witness ==
    /\ ThrewAt("checkCowDao")
    /\ Mismatch("cowDao")
    /\ ExpectedOf("cowToken") # None
    /\ folder0.claims # None
    /\ folder0.addresses # None

\* C3 (as claimed): the error of a mismatch names the contract, the expected
\* value from settings and the predicted value, for cowToken and for cowDao.
C3_MismatchErrorNamesAll ==
    \A name \in Names :
        ThrewAt(CheckOf(name)) =>
            /\ Txt(name) \in Range(error)
            /\ ExpectedOf(name)[1] \in Range(error)
            /\ PredictedOf(name) \in Range(error)

\* C4 (as claimed): after a failed run the folder is as it was before the
\* run, or it holds nothing written by this run.
C4_NoPartialOutput ==
    pc = "failed" => (folder = folder0 \/ ~AnyWrite)

\* C5 (as claimed): after a successful run the folder holds a parameters file
\* written by this run whose root is this run's merkleRoot.
C5_ParametersPersisted ==
    pc = "done" =>
        /\ Written("params.json")
        /\ folder.params # None
        /\ folder.params[1].json.merkleRoot = proofs[1].merkleRoot

\* C6: after a successful run the shard files of the folder are exactly the
\* shards of this run's claim list, whatever an earlier run left there.
C6_ExactShards ==
    pc = "done" => folder.chunks = Shards(proofs[1].claims)

C6_Witness ==
    /\ pc = "done"
    /\ Len(folder0.chunks) > Len(folder.chunks)

\* C7: an absent expectedAddress gives a warning for that name and no abort
\* at that check; a run that completes has assembled the parameters and
\* written the address file, the claim file and every shard.
C7_AbsentWarnsAndProceeds ==
    \A name \in Names :
        (Known /\ ExpectedOf(name) = None /\ Executed(CheckOf(name))) =>
            /\ WarningOf(name) \in warnings
            /\ ~ThrewAt(CheckOf(name))
            /\ pc = "done" =>
                /\ deploymentHelperParameters # None
                /\ Written("addresses.json")
                /\ folder.addresses # None
                /\ Written("claims.json")
                /\ folder.claims = Some(JSONstringify(proofs[1].claims))
                /\ \A k \in 1..Len(Shards(proofs[1].claims)) :
                      Op("write", "chunk", k) \in Range(ops)

C7_Witness ==
    /\ pc = "done"
    /\ ExpectedOf("cowToken") = None
    /\ ExpectedOf("cowDao") # None
    /\ WarningOf("cowToken") \in warnings

\* C8: an expectedAddress equal to the predicted address up to letter case
\* raises no error at that check and gives no warning for that name.
C8_CaseInsensitiveMatch ==
    \A name \in Names :
        (/\ Known
         /\ ExpectedOf(name) # None
         /\ EqualUpToCase(ExpectedOf(name)[1], PredictedOf(name))
         /\ Executed(CheckOf(name))) =>
            /\ ~ThrewAt(CheckOf(name))
            /\ WarningOf(name) \notin warnings

C8_Witness ==
    /\ pc = "done"
    /\ ExpectedOf("cowToken") # None
    /\ ExpectedOf("cowToken")[1] # PredictedOf("cowToken")
    /\ EqualUpToCase(ExpectedOf("cowToken")[1], PredictedOf("cowToken"))
    /\ ExpectedOf("cowDao") = Some(PredictedOf("cowDao"))

FileRank(o) ==
    CASE o.file = "addresses.json" -> 1
      [] o.file = "claims.json" -> 2
      [] OTHER -> 3

\* C9: in the Artifact Writer no removal follows a write, the claim file,
\* the parameters file and the shard files are removed before the first
\* write, and the writes go address file, claim file, shards by index.
C9_RemovalsThenOrderedWrites ==
    /\ \A i, j \in 1..Len(ops) :
          (i < j /\ ops[i].op = "write") =>
              /\ ops[j].op = "write"
              /\ FileRank(ops[i]) <= FileRank(ops[j])
              /\ FileRank(ops[i]) < 3 => FileRank(ops[i]) < FileRank(ops[j])
              /\ FileRank(ops[i]) = 3 => ops[i].idx < ops[j].idx
    /\ AnyWrite =>
          /\ Removed("claims.json")
          /\ Removed("params.json")
          /\ Removed("chunks")
          /\ ops[4] = Op("write", "addresses.json", 0)

C9_Witness ==
    /\ pc = "done"
    /\ Len(ops) >= 7
    /\ folder0.params # None

NoMismatch(name) ==
    ExpectedOf(name) = None \/ EqualUpToCase(ExpectedOf(name)[1], PredictedOf(name))

\* C10: at most one deployment per run, only after the chain check and both
\* address checks passed; the folder is touched only once the deployment has
\* returned; a failed deployment leaves the folder as it was; the address
\* file written by the run holds the address of the contract it deployed.
C10_DeployGatesFolder ==
    /\ deployCount <= 1
    /\ deployCount = 1 =>
          /\ chainId = Some("100")
          /\ Known
          /\ \A name \in Names : NoMismatch(name) /\ Executed(CheckOf(name))
          /\ bridgedTokenDeployer # None
    /\ (ops # <<>> \/ folder # folder0) => deployCount = 1
    /\ (ThrewAt("deploy") \/ ThrewAt("getContractFactory")) =>
          folder = folder0 /\ ops = <<>>
    /\ Written("addresses.json") =>
          folder.addresses =
              Some(JSONstringifyString(bridgedTokenDeployer[1].address))

C10_Witness ==
    /\ pc = "done"
    /\ folder0.addresses # None
    /\ folder0.addresses # folder.addresses
    /\ deployCount = 1
====
